---- MODULE Spec2Model ----
(***************************************************************************)
(* Model of the Plutonium T6 log reader: the rotation-aware tailer         *)
(* (TailFileContext), the line grammar (ParseEventLine) and the TTL cache   *)
(* of players (PlayerDirectory).                                           *)
(*                                                                         *)
(* Strings are sequences of one-character strings, so that the string      *)
(* functions of the code (trim, split, prefix tests, Atoi) are computed.   *)
(***************************************************************************)
EXTENDS Integers, Sequences, FiniteSets, TLC

(***************************************************************************)
(* Bounds of the model.                                                    *)
(***************************************************************************)
\* operations of the log writer in a run: appends, truncations, creations
MaxWriterOps == 3
\* capacity of the events channel
ChanCap == 2
\* last instant of the clock
MaxTime == 3

(***************************************************************************)
(* Strings.                                                                *)
(***************************************************************************)
Digits == <<"0", "1", "2", "3", "4", "5", "6", "7", "8", "9">>

IsDigit(c) == \E i \in 1..10 : Digits[i] = c

DigitVal(c) == (CHOOSE i \in 1..10 : Digits[i] = c) - 1

\* unicode.IsSpace on the ASCII range
IsSpace(c) == c \in {" ", "\t", "\n", "\r"}

RECURSIVE TrimLeftSet(_, _)
TrimLeftSet(s, cut) ==
    IF s # <<>> /\ Head(s) \in cut THEN TrimLeftSet(Tail(s), cut) ELSE s

RECURSIVE TrimRightSet(_, _)
TrimRightSet(s, cut) ==
    IF s # <<>> /\ s[Len(s)] \in cut
    THEN TrimRightSet(SubSeq(s, 1, Len(s) - 1), cut)
    ELSE s

\* strings.TrimRight(line, "\r\n")
TrimRight(s) == TrimRightSet(s, {"\r", "\n"})

\* strings.TrimSpace
TrimSpace(s) ==
    TrimRightSet(TrimLeftSet(s, {" ", "\t", "\n", "\r"}), {" ", "\t", "\n", "\r"})

\* strings.HasPrefix
HasPrefix(s, p) == Len(s) >= Len(p) /\ SubSeq(s, 1, Len(p)) = p

\* strings.Contains for a one-character needle
ContainsChar(s, c) == \E i \in 1..Len(s) : s[i] = c

\* index of the first c in s, 0 when there is none
IndexOf(s, c) ==
    IF ContainsChar(s, c) THEN CHOOSE i \in 1..Len(s) : s[i] = c /\ \A j \in 1..(i - 1) : s[j] # c
    ELSE 0

\* strings.Split(s, sep) for a one-character separator
RECURSIVE Split(_, _)
Split(s, sep) ==
    LET i == IndexOf(s, sep)
    IN  IF i = 0 THEN <<s>>
        ELSE <<SubSeq(s, 1, i - 1)>> \o Split(SubSeq(s, i + 1, Len(s)), sep)

\* strings.SplitN(s, sep, n) for n >= 1
RECURSIVE SplitN(_, _, _)
SplitN(s, sep, n) ==
    LET i == IndexOf(s, sep)
    IN  IF n <= 1 \/ i = 0 THEN <<s>>
        ELSE <<SubSeq(s, 1, i - 1)>> \o SplitN(SubSeq(s, i + 1, Len(s)), sep, n - 1)

\* strings.Fields: the maximal runs of non-space characters
RECURSIVE Fields(_)
Fields(s) ==
    LET t == TrimLeftSet(s, {" ", "\t", "\n", "\r"})
        n == IF \E i \in 1..Len(t) : IsSpace(t[i])
             THEN (CHOOSE i \in 1..Len(t) : IsSpace(t[i]) /\ \A j \in 1..(i - 1) : ~IsSpace(t[j])) - 1
             ELSE Len(t)
    IN  IF t = <<>> THEN <<>>
        ELSE <<SubSeq(t, 1, n)>> \o Fields(SubSeq(t, n + 1, Len(t)))

\* strings.Join(parts, " ")
RECURSIVE JoinSpace(_)
JoinSpace(parts) ==
    IF parts = <<>> THEN <<>>
    ELSE IF Len(parts) = 1 THEN parts[1]
    ELSE parts[1] \o <<" ">> \o JoinSpace(Tail(parts))

RECURSIVE DigitsValue(_, _)
DigitsValue(s, acc) ==
    IF s = <<>> THEN acc ELSE DigitsValue(Tail(s), acc * 10 + DigitVal(Head(s)))

\* strconv.Atoi: an optional sign, then one or more decimal digits
Atoi(s) ==
    LET signed == s # <<>> /\ Head(s) \in {"+", "-"}
        body == IF signed THEN Tail(s) ELSE s
        ok == body # <<>> /\ \A i \in 1..Len(body) : IsDigit(body[i])
    IN  IF ~ok THEN [ok |-> FALSE, val |-> 0]
        ELSE [ok |-> TRUE,
              val |-> IF signed /\ Head(s) = "-" THEN 0 - DigitsValue(body, 0)
                      ELSE DigitsValue(body, 0)]

UpperLetters ==
    <<"A", "B", "C", "D", "E", "F", "G", "H", "I", "J", "K", "L", "M",
      "N", "O", "P", "Q", "R", "S", "T", "U", "V", "W", "X", "Y", "Z">>

LowerLetters ==
    <<"a", "b", "c", "d", "e", "f", "g", "h", "i", "j", "k", "l", "m",
      "n", "o", "p", "q", "r", "s", "t", "u", "v", "w", "x", "y", "z">>

LowerChar(c) ==
    IF \E i \in 1..26 : UpperLetters[i] = c
    THEN LowerLetters[CHOOSE i \in 1..26 : UpperLetters[i] = c]
    ELSE c

\* strings.ToLower on ASCII
ToLower(s) == [i \in 1..Len(s) |-> LowerChar(s[i])]

\* strings.EqualFold on ASCII
EqualFold(s, t) == ToLower(s) = ToLower(t)

\* strings.Contains
Contains(s, sub) ==
    \E i \in 0..(Len(s) - Len(sub)) : SubSeq(s, i + 1, i + Len(sub)) = sub


(***************************************************************************)
(* The line grammar (ParseEventLine and its helpers).                      *)
(***************************************************************************)
StrInitGame == <<"I", "n", "i", "t", "G", "a", "m", "e", ":">>

StrShutdownGame == <<"S", "h", "u", "t", "d", "o", "w", "n", "G", "a", "m", "e", ":">>

StrSay == <<"s", "a", "y", " ">>

StrSayTeam == <<"s", "a", "y", "t", "e", "a", "m", " ">>

StrBot == <<"b", "o", "t">>

\* a nil *time.Duration is <<>>, a set one is <<seconds>>
NoTimestamp == <<>>

NoEvent == [kind |-> "none"]

ParseFail == [err |-> TRUE, ev |-> NoEvent]

ParseOk(ev) == [err |-> FALSE, ev |-> ev]

\* [A-Fa-f0-9_]
IsHexLike(c) ==
    IsDigit(c) \/ c \in {"A", "B", "C", "D", "E", "F", "a", "b", "c", "d", "e", "f", "_"}

\* -?[A-Fa-f0-9_]{1,32}|bot[0-9]+|0
XuidMatches(x) ==
    LET body == IF x # <<>> /\ Head(x) = "-" THEN Tail(x) ELSE x
    IN  \/ Len(body) \in 1..32 /\ \A i \in 1..Len(body) : IsHexLike(body[i])
        \/ HasPrefix(x, StrBot) /\ Len(x) > 3 /\ \A i \in 4..Len(x) : IsDigit(x[i])
        \/ x = <<"0">>

\* ^(J);(xuid);([0-9]+);(.*)$
parseJoinEvent(line, ts, raw) ==
    LET m == SplitN(line, ";", 4)
    IN  IF /\ Len(m) = 4
           /\ m[1] = <<"J">>
           /\ XuidMatches(m[2])
           /\ m[3] # <<>>
           /\ \A i \in 1..Len(m[3]) : IsDigit(m[3][i])
           /\ ~ContainsChar(m[4], "\n")
        THEN ParseOk([kind |-> "Player", Timestamp |-> ts, Command |-> m[1], Raw |-> raw,
                      XUID |-> m[2], Flag |-> Atoi(m[3]).val, Player |-> m[4],
                      Message |-> <<>>])
        ELSE ParseFail

parseKillEvent(line, ts, raw) ==
    LET parts == Split(line, ";")
    IN  IF Len(parts) # 13 THEN ParseFail
        ELSE IF parts[1] # <<"K">> THEN ParseFail
        ELSE IF ~Atoi(parts[3]).ok THEN ParseFail
        ELSE IF ~Atoi(parts[7]).ok THEN ParseFail
        ELSE ParseOk([kind |-> "Kill", Timestamp |-> ts, Command |-> <<"K">>, Raw |-> raw,
                      KillerXUID |-> parts[2], KillerClientNum |-> Atoi(parts[3]).val,
                      KillerTeam |-> parts[4], KillerName |-> parts[5],
                      VictimXUID |-> parts[6], VictimClientNum |-> Atoi(parts[7]).val,
                      VictimTeam |-> parts[8], VictimName |-> parts[9],
                      Weapon |-> parts[10], Damage |-> parts[11],
                      MeansOfDeath |-> parts[12], HitLocation |-> parts[13]])

\* a generic player grammar that takes a slot that is no integer as 0
parsePlayerEventAnySlot(line, ts, raw) ==
    LET parts == SplitN(line, ";", 5)
    IN  IF Len(parts) < 4 THEN ParseFail
        ELSE ParseOk([kind |-> "Player", Timestamp |-> ts,
                      Command |-> TrimSpace(parts[1]), Raw |-> raw,
                      XUID |-> TrimSpace(parts[2]),
                      Flag |-> Atoi(TrimSpace(parts[3])).val,
                      Player |-> TrimSpace(parts[4]),
                      Message |-> IF Len(parts) = 5 THEN TrimSpace(parts[5]) ELSE <<>>])

parsePlayerEvent(line, ts, raw) ==
    LET parts == SplitN(line, ";", 5)
    IN  IF Len(parts) < 4 THEN ParseFail
        ELSE IF ~Atoi(TrimSpace(parts[3])).ok THEN ParseFail
        ELSE ParseOk([kind |-> "Player", Timestamp |-> ts,
                      Command |-> TrimSpace(parts[1]), Raw |-> raw,
                      XUID |-> TrimSpace(parts[2]),
                      Flag |-> Atoi(TrimSpace(parts[3])).val,
                      Player |-> TrimSpace(parts[4]),
                      Message |-> IF Len(parts) = 5 THEN TrimSpace(parts[5]) ELSE <<>>])

parseChatPlayerEvent(line, ts, raw) ==
    LET fields == Fields(line)
    IN  IF Len(fields) < 3 THEN ParseFail
        ELSE ParseOk([kind |-> "Player", Timestamp |-> ts, Command |-> fields[1],
                      Raw |-> raw, XUID |-> <<>>, Flag |-> 0, Player |-> fields[2],
                      Message |-> JoinSpace(SubSeq(fields, 3, Len(fields)))])

\* the map built by the loop over parts[i], parts[i+1] for i = 1, 3, ... (0-based);
\* a later pair overwrites an earlier one with the same key
RECURSIVE PairsFrom(_, _, _)
PairsFrom(parts, i, data) ==
    IF i + 1 > Len(parts) THEN data
    ELSE PairsFrom(parts, i + 2,
                   [k \in DOMAIN data \cup {parts[i]} |->
                        IF k = parts[i] THEN parts[i + 1] ELSE data[k]])

parseKeyValuePairs(s) ==
    LET t == TrimSpace(s)
    IN  IF t = <<>> THEN <<>>
        ELSE PairsFrom(Split(t, "\\"), 2, <<>>)

parseTimestamp(s) ==
    LET parts == Split(s, ":")
        nums == [i \in 1..Len(parts) |-> Atoi(parts[i])]
    IN  IF Len(parts) < 2 \/ Len(parts) > 3 THEN [ok |-> FALSE, sec |-> 0]
        ELSE IF \E i \in 1..Len(parts) : ~nums[i].ok THEN [ok |-> FALSE, sec |-> 0]
        ELSE IF Len(parts) = 2
             THEN [ok |-> TRUE, sec |-> nums[1].val * 60 + nums[2].val]
             ELSE [ok |-> TRUE,
                   sec |-> nums[1].val * 3600 + nums[2].val * 60 + nums[3].val]

\* the timestamp prefix of ParseEventLine: the timestamp and the line left
StripTimestamp(line) ==
    LET fields == Fields(line)
        none == [ts |-> NoTimestamp, line |-> line]
    IN  IF Len(fields) <= 1 THEN none
        ELSE IF ~ContainsChar(fields[1], ":") THEN none
        ELSE IF ~parseTimestamp(fields[1]).ok THEN none
        ELSE [ts |-> <<parseTimestamp(fields[1]).sec>>, line |-> JoinSpace(Tail(fields))]

\* a classifier that tries the chat grammar before the semicolon grammars
ParseEventLineChatFirst(input) ==
    LET raw == TrimSpace(input)
        st == StripTimestamp(raw)
        ts == st.ts
        line == st.line
    IN  IF raw = <<>> THEN ParseFail
        ELSE IF HasPrefix(line, StrInitGame)
        THEN ParseOk([kind |-> "Server", Timestamp |-> ts, Command |-> SubSeq(StrInitGame, 1, 8),
                      Raw |-> raw,
                      Data |-> parseKeyValuePairs(SubSeq(line, Len(StrInitGame) + 1, Len(line)))])
        ELSE IF HasPrefix(line, StrShutdownGame)
        THEN ParseOk([kind |-> "Server", Timestamp |-> ts,
                      Command |-> SubSeq(StrShutdownGame, 1, 12), Raw |-> raw, Data |-> <<>>])
        ELSE IF HasPrefix(line, StrSay) \/ HasPrefix(line, StrSayTeam)
        THEN parseChatPlayerEvent(line, ts, raw)
        ELSE IF ContainsChar(line, ";")
        THEN IF ~parseJoinEvent(line, ts, raw).err THEN parseJoinEvent(line, ts, raw)
             ELSE IF ~parseKillEvent(line, ts, raw).err THEN parseKillEvent(line, ts, raw)
             ELSE parsePlayerEvent(line, ts, raw)
        ELSE ParseOk([kind |-> "Base", Timestamp |-> ts, Command |-> line, Raw |-> raw])

ParseEventLine(input) ==
    LET raw == TrimSpace(input)
        st == StripTimestamp(raw)
        ts == st.ts
        line == st.line
    IN  IF raw = <<>> THEN ParseFail
        ELSE IF HasPrefix(line, StrInitGame)
        THEN ParseOk([kind |-> "Server", Timestamp |-> ts, Command |-> SubSeq(StrInitGame, 1, 8),
                      Raw |-> raw,
                      Data |-> parseKeyValuePairs(SubSeq(line, Len(StrInitGame) + 1, Len(line)))])
        ELSE IF HasPrefix(line, StrShutdownGame)
        THEN ParseOk([kind |-> "Server", Timestamp |-> ts,
                      Command |-> SubSeq(StrShutdownGame, 1, 12), Raw |-> raw, Data |-> <<>>])
        ELSE IF ContainsChar(line, ";")
        THEN IF ~parseJoinEvent(line, ts, raw).err THEN parseJoinEvent(line, ts, raw)
             ELSE IF ~parseKillEvent(line, ts, raw).err THEN parseKillEvent(line, ts, raw)
             ELSE parsePlayerEvent(line, ts, raw)
        ELSE IF HasPrefix(line, StrSay) \/ HasPrefix(line, StrSayTeam)
        THEN parseChatPlayerEvent(line, ts, raw)
        ELSE ParseOk([kind |-> "Base", Timestamp |-> ts, Command |-> line, Raw |-> raw])

(***************************************************************************)
(* State.                                                                  *)
(*                                                                         *)
(* The tailer (TailFileContext), the file system it reads, the writer of   *)
(* the log, the cancellation token and the consumer of the channel.        *)
(***************************************************************************)
VARIABLES
    files,       \* files[i]: the bytes of the file with identity i
    pathId,      \* identity of the file at the path, 0 when the path does not exist
    written,     \* operations the writer has made so far
    startAtEnd,  \* the parameter startAtEnd
    cancelled,   \* ctx.Done() is closed
    pc,          \* where TailFileContext is
    handles,     \* every *os.File opened: the file it is open on, and whether it is open
    f,           \* index in handles of the variable f, 0 before the first open
    fileOff,     \* offset of f in the operating system
    buf,         \* bytes bufio.Reader has read from f and not yet returned
    startPos,    \* offset at which reading of f began (history)
    ev,          \* the event being sent, with the number of the line it was parsed from
    eventsCh,    \* the buffered events of eventsCh, oldest first
    received,    \* the events the consumer has taken (history)
    readLog,     \* the lines handed to ParseEventLine (history)
    truncated,   \* the files that were truncated in place (history)
    result,      \* what TailFileContext returned
    sentSinceCancel, \* the events sent on eventsCh after ctx was cancelled (history)
    parses       \* ParseEventLine tabulated over the lines a run can read (computed once)

tailVars == <<files, pathId, written, startAtEnd, cancelled, pc, handles, f, fileOff, buf,
              startPos, ev, eventsCh, received, readLog, truncated, result, sentSinceCancel,
              parses>>

\* the state of the PlayerDirectory and of its callers
VARIABLES
    now,       \* time.Now()
    ttl,       \* d.ttl
    mu,        \* d.mu: the caller holding the write lock (or none), the holders of read locks
    players,   \* d.players
    expires,   \* d.expires
    cpc,       \* where each caller is in its call
    op,        \* the method each caller is in, with its argument
    got,       \* the local variable players of Snapshot: what source.Status returned
    ret,       \* what the call that returned last returned
    handed,    \* the slice source.Status returned for the players now in d.players
    lastPair,  \* the players and expiry last written as a whole, and by what (history)
    recordOrder, \* whether the two histories below are kept in this run
    statusOrder, \* the callers holding players of source.Status not yet stored, in the
               \* order in which their calls of Status returned (history)
    behind,    \* of these, the callers whose call of Status returned before the call
               \* whose players were stored last (history)
    fresh      \* Invalidate has returned and no Snapshot has started since (history)

dirVars == <<now, ttl, mu, players, expires, cpc, op, got, ret, handed, lastPair,
             recordOrder, statusOrder, behind, fresh>>

\* a line being classified on its own, outside a tail
VARIABLES
    pmode,     \* the kind of line built: any line, or an InitGame line with its blob
    ptoks,     \* the pieces the line is made of
    pres,      \* what ParseEventLine returned for the line
    pst        \* a timestamp token, and what ParseEventLine returned for the line after it

parseVars == <<pmode, ptoks, pres, pst>>

vars == <<tailVars, dirVars, parseVars>>

\* what one write of the log writer appends: a whole line (well-formed or malformed: a
\* line with a semicolon and no integer slot), the beginning of a line, the end of a line
Pieces == {<<"a", "\n">>, <<";", "\n">>, <<"a">>}

NoPending == [seq |-> 0, ev |-> NoEvent]

\* the log when the tail starts: one well-formed line
InitialLog == <<"a", "\n">>

\* the characters a line can be made of
LineChars ==
    UNION {{p[i] : i \in 1..Len(p)} : p \in Pieces \cup {InitialLog}} \ {"\n"}

\* every line a run can read: the writer adds at most one character to a line each time
PossibleLines == UNION {[1..n -> LineChars] : n \in 0..(MaxWriterOps + Len(InitialLog))}

TailInit ==
    /\ parses = [l \in PossibleLines |-> ParseEventLine(l)]
    /\ files = <<InitialLog>>
    /\ pathId = 1
    /\ written = 0
    /\ startAtEnd \in BOOLEAN
    /\ cancelled = FALSE
    /\ pc = "open"
    /\ handles = <<>>
    /\ f = 0
    /\ fileOff = 0
    /\ buf = <<>>
    /\ startPos = 0
    /\ ev = NoPending
    /\ eventsCh = <<>>
    /\ received = <<>>
    /\ readLog = <<>>
    /\ truncated = {}
    /\ result = "none"
    /\ sentSinceCancel = 0

(***************************************************************************)
(* bufio.Reader.ReadString('\n') on file content `content` at offset `off` *)
(* with buffered bytes b. A line already buffered is returned without      *)
(* touching the file. Otherwise the reader fills its buffer with what the  *)
(* file holds beyond off; when there is still no terminator the next fill  *)
(* reads nothing, and ReadString returns ALL the bytes collected together  *)
(* with io.EOF: they are consumed.                                         *)
(***************************************************************************)
ReadString(b, content, off) ==
    LET more == IF ContainsChar(b, "\n") \/ off >= Len(content) THEN <<>>
                ELSE SubSeq(content, off + 1, Len(content))
        data == b \o more
        i == IndexOf(data, "\n")
    IN  IF i > 0
        THEN [line |-> SubSeq(data, 1, i), rest |-> SubSeq(data, i + 1, Len(data)),
              off |-> off + Len(more), eof |-> FALSE]
        ELSE [line |-> data, rest |-> <<>>, off |-> off + Len(more), eof |-> TRUE]

\* the identity of the file f is open on, 0 before the first open
CurFile == IF f = 0 THEN 0 ELSE handles[f].file

\* currentOffset(f)
currentOffset == fileOff

\* whether the bytes returned next begin at a line boundary of the file read:
\* at the position reading began, or right after a terminator
AtLineStart ==
    LET content == files[CurFile]
        s == fileOff - Len(buf)
    IN  s = startPos \/ (s >= 1 /\ s <= Len(content) /\ content[s] = "\n")

\* a channel that hands over the newest event first
ChanSendFront(ch, e) == <<e>> \o ch

\* eventsCh <- ev
ChanSend(ch, e) == Append(ch, e)

\* return: the deferred f.Close() closes the file f named when defer ran, the first one
Return(r) ==
    /\ pc' = "done"
    /\ result' = r
    /\ handles' = IF handles = <<>> THEN handles
                  ELSE [handles EXCEPT ![1] = [@ EXCEPT !.open = FALSE]]

\* lines 21-37: open the path and seek
TailOpen ==
    /\ pc = "open"
    /\ IF pathId = 0
       THEN /\ Return("ioErr")
            /\ UNCHANGED <<f, fileOff, startPos>>
       ELSE /\ handles' = <<[file |-> pathId, open |-> TRUE]>>
            /\ f' = 1
            /\ fileOff' = IF startAtEnd THEN Len(files[pathId]) ELSE 0
            /\ startPos' = fileOff'
            /\ pc' = "loop"
            /\ UNCHANGED result
    /\ UNCHANGED <<files, pathId, written, startAtEnd, cancelled, buf, ev, eventsCh,
                   received, readLog, truncated>>
    /\ UNCHANGED sentSinceCancel
    /\ UNCHANGED <<dirVars, parses, parseVars>>

\* a loop that does not look at ctx before it reads
TailLoopIgnoresCtx ==
    /\ pc = "loop"
    /\ pc' = "read"
    /\ UNCHANGED <<result, handles>>
    /\ UNCHANGED <<files, pathId, written, startAtEnd, cancelled, f, fileOff, buf, startPos,
                   ev, eventsCh, received, readLog, truncated>>
    /\ UNCHANGED sentSinceCancel
    /\ UNCHANGED <<dirVars, parses, parseVars>>

\* lines 40-44: the check of ctx at the top of the loop
TailLoop ==
    /\ pc = "loop"
    /\ IF cancelled
       THEN Return("ctxErr")
       ELSE pc' = "read" /\ UNCHANGED <<result, handles>>
    /\ UNCHANGED <<files, pathId, written, startAtEnd, cancelled, f, fileOff, buf, startPos,
                   ev, eventsCh, received, readLog, truncated>>
    /\ UNCHANGED sentSinceCancel
    /\ UNCHANGED <<dirVars, parses, parseVars>>

\* a tailer that returns the error of ParseEventLine
ParseErrorReturned == [pc |-> "done", result |-> "parseErr"]

\* lines 89-92: ParseEventLine failed: log and continue
AfterParseError == [pc |-> "loop", result |-> "none"]

\* lines 46-48 and 83-92: ReadString returned a line
TailReadLine ==
    /\ pc = "read"
    /\ \E r \in {ReadString(buf, files[CurFile], fileOff)} :
       \E line \in {TrimRight(r.line)} :
       \E p \in {parses[line]} :
           /\ ~r.eof
           /\ buf' = r.rest
           /\ fileOff' = r.off
           /\ IF line = <<>>
              THEN pc' = "loop" /\ UNCHANGED <<ev, result, readLog>>
              ELSE /\ readLog' = Append(readLog, [line |-> line, whole |-> AtLineStart,
                                                  file |-> CurFile,
                                                  intact |-> CurFile \notin truncated])
                   /\ IF p.err
                      THEN /\ pc' = AfterParseError.pc
                           /\ result' = AfterParseError.result
                           /\ UNCHANGED ev
                      ELSE /\ ev' = [seq |-> Len(readLog) + 1, ev |-> p.ev]
                           /\ pc' = "send"
                           /\ UNCHANGED result
    /\ UNCHANGED <<files, pathId, written, startAtEnd, cancelled, handles, f, startPos,
                   eventsCh, received, truncated>>
    /\ UNCHANGED sentSinceCancel
    /\ UNCHANGED <<dirVars, parses, parseVars>>

\* lines 46-48: ReadString returned io.EOF; what it returned with it is dropped
TailReadEOF ==
    /\ pc = "read"
    /\ \E r \in {ReadString(buf, files[CurFile], fileOff)} :
           /\ r.eof
           /\ buf' = r.rest
           /\ fileOff' = r.off
    /\ pc' = "stat"
    /\ UNCHANGED <<files, pathId, written, startAtEnd, cancelled, handles, f, startPos, ev,
                   eventsCh, received, readLog, result, truncated>>
    /\ UNCHANGED sentSinceCancel
    /\ UNCHANGED <<dirVars, parses, parseVars>>

\* line 80: ReadString returned an error other than io.EOF
TailReadError ==
    /\ pc = "read"
    /\ Return("ioErr")
    /\ UNCHANGED <<files, pathId, written, startAtEnd, cancelled, f, fileOff, buf, startPos,
                   ev, eventsCh, received, readLog, truncated>>
    /\ UNCHANGED sentSinceCancel
    /\ UNCHANGED <<dirVars, parses, parseVars>>

\* a rotation test that compares sizes only
RotatedBySizeOnly == Len(files[pathId]) < currentOffset

\* line 52: the file at the path is another file, or shorter than what was read
Rotated ==
    \/ pathId # CurFile
    \/ Len(files[pathId]) < currentOffset

\* the bytes of file i are gone once it has no name and no open handle
Unlinked(fs, i, path, hs) ==
    IF i # path /\ \A k \in 1..Len(hs) : ~(hs[k].file = i /\ hs[k].open)
    THEN [fs EXCEPT ![i] = <<>>]
    ELSE fs

\* lines 49-53: stat the path and compare; on a rotation close f
TailStat ==
    /\ pc = "stat"
    /\ IF pathId # 0 /\ Rotated
       THEN /\ handles' = [handles EXCEPT ![f] = [@ EXCEPT !.open = FALSE]]
            /\ files' = Unlinked(files, CurFile, pathId, handles')
            /\ pc' = "reopen"
       ELSE /\ pc' = "poll"
            /\ UNCHANGED <<handles, files>>
    /\ UNCHANGED <<pathId, written, startAtEnd, cancelled, f, fileOff, buf, startPos,
                   ev, eventsCh, received, readLog, result, truncated>>
    /\ UNCHANGED sentSinceCancel
    /\ UNCHANGED <<dirVars, parses, parseVars>>

\* lines 55-69: one round of the reopen loop
TailReopen ==
    /\ pc = "reopen"
    /\ IF cancelled
       THEN /\ Return("ctxErr")
            /\ UNCHANGED <<f, fileOff, buf, startPos>>
       ELSE IF pathId = 0
       THEN /\ pc' = "reopenSleep"
            /\ UNCHANGED <<handles, f, fileOff, buf, startPos, result>>
       ELSE /\ handles' = Append(handles, [file |-> pathId, open |-> TRUE])
            /\ f' = Len(handles) + 1
            /\ fileOff' = 0
            /\ buf' = <<>>
            /\ startPos' = 0
            /\ pc' = "loop"
            /\ UNCHANGED result
    /\ UNCHANGED <<files, pathId, written, startAtEnd, cancelled, ev, eventsCh, received,
                   readLog, truncated>>
    /\ UNCHANGED sentSinceCancel
    /\ UNCHANGED <<dirVars, parses, parseVars>>

\* line 65: time.Sleep(reopenRetry)
TailReopenSleep ==
    /\ pc = "reopenSleep"
    /\ pc' = "reopen"
    /\ UNCHANGED <<files, pathId, written, startAtEnd, cancelled, handles, f, fileOff, buf,
                   startPos, ev, eventsCh, received, readLog, result, truncated>>
    /\ UNCHANGED sentSinceCancel
    /\ UNCHANGED <<dirVars, parses, parseVars>>

\* lines 73-78: the poll sleep, a select on ctx.Done() and the timer
TailPoll ==
    /\ pc = "poll"
    /\ \/ cancelled /\ Return("ctxErr")
       \/ pc' = "loop" /\ UNCHANGED <<result, handles>>
    /\ UNCHANGED <<files, pathId, written, startAtEnd, cancelled, f, fileOff, buf, startPos,
                   ev, eventsCh, received, readLog, truncated>>
    /\ UNCHANGED sentSinceCancel
    /\ UNCHANGED <<dirVars, parses, parseVars>>

\* a send that does not watch ctx.Done()
TailSendUncancellable ==
    /\ pc = "send"
    /\ Len(eventsCh) < ChanCap
    /\ eventsCh' = ChanSend(eventsCh, ev)
    /\ sentSinceCancel' = IF cancelled THEN sentSinceCancel + 1 ELSE sentSinceCancel
    /\ ev' = NoPending
    /\ pc' = "loop"
    /\ UNCHANGED <<files, pathId, written, startAtEnd, cancelled, handles, f, fileOff, buf,
                   startPos, received, readLog, truncated, result>>
    /\ UNCHANGED <<dirVars, parses, parseVars>>

\* a send that gives up when the channel is full (a select with a default case)
TailSendOrDrop ==
    /\ pc = "send"
    /\ \/ cancelled /\ Return("ctxErr") /\ UNCHANGED <<eventsCh, ev, sentSinceCancel>>
       \/ /\ eventsCh' = IF Len(eventsCh) < ChanCap THEN ChanSend(eventsCh, ev) ELSE eventsCh
          /\ sentSinceCancel' = IF cancelled /\ Len(eventsCh) < ChanCap
                                THEN sentSinceCancel + 1 ELSE sentSinceCancel
          /\ ev' = NoPending
          /\ pc' = "loop"
          /\ UNCHANGED <<result, handles>>
    /\ UNCHANGED <<files, pathId, written, startAtEnd, cancelled, f, fileOff, buf, startPos,
                   received, readLog, truncated>>
    /\ UNCHANGED <<dirVars, parses, parseVars>>

\* lines 94-98: the send, a select on ctx.Done() and the channel
TailSend ==
    /\ pc = "send"
    /\ \/ cancelled /\ Return("ctxErr") /\ UNCHANGED <<eventsCh, ev, sentSinceCancel>>
       \/ /\ Len(eventsCh) < ChanCap
          /\ eventsCh' = ChanSend(eventsCh, ev)
          /\ sentSinceCancel' = IF cancelled THEN sentSinceCancel + 1 ELSE sentSinceCancel
          /\ ev' = NoPending
          /\ pc' = "loop"
          /\ UNCHANGED <<result, handles>>
    /\ UNCHANGED <<files, pathId, written, startAtEnd, cancelled, f, fileOff, buf, startPos,
                   received, readLog, truncated>>
    /\ UNCHANGED <<dirVars, parses, parseVars>>

Tailer ==
    \/ TailOpen
    \/ TailLoop
    \/ TailReadLine
    \/ TailReadEOF
    \/ TailReadError
    \/ TailStat
    \/ TailReopen
    \/ TailReopenSleep
    \/ TailPoll
    \/ TailSend

(***************************************************************************)
(* The environment of a run: the writer of the log, the caller cancelling  *)
(* ctx, the consumer of eventsCh. It is followed while the tailer runs.    *)
(***************************************************************************)
WriterAppend ==
    /\ pc # "done"
    /\ pathId # 0
    /\ written < MaxWriterOps
    /\ \E piece \in Pieces : files' = [files EXCEPT ![pathId] = @ \o piece]
    /\ written' = written + 1
    /\ UNCHANGED <<pathId, startAtEnd, cancelled, pc, handles, f, fileOff, buf, startPos, ev,
                   eventsCh, received, readLog, result, truncated>>
    /\ UNCHANGED sentSinceCancel
    /\ UNCHANGED <<dirVars, parses, parseVars>>

\* the file at the path is truncated in place
WriterTruncate ==
    /\ pc # "done"
    /\ pathId # 0
    /\ files[pathId] # <<>>
    /\ written < MaxWriterOps
    /\ files' = [files EXCEPT ![pathId] = <<>>]
    /\ truncated' = truncated \cup {pathId}
    /\ written' = written + 1
    /\ UNCHANGED <<pathId, startAtEnd, cancelled, pc, handles, f, fileOff, buf,
                   startPos, ev, eventsCh, received, readLog, result>>
    /\ UNCHANGED sentSinceCancel
    /\ UNCHANGED <<dirVars, parses, parseVars>>

\* the file at the path is renamed away or removed; open handles keep reading it
WriterRemove ==
    /\ pc # "done"
    /\ pathId # 0
    /\ pathId' = 0
    /\ files' = Unlinked(files, pathId, 0, handles)
    /\ UNCHANGED <<written, startAtEnd, cancelled, pc, handles, f, fileOff, buf,
                   startPos, ev, eventsCh, received, readLog, result, truncated>>
    /\ UNCHANGED sentSinceCancel
    /\ UNCHANGED <<dirVars, parses, parseVars>>

\* a new, empty file is created at the path
WriterCreate ==
    /\ pc # "done"
    /\ pathId = 0
    /\ written < MaxWriterOps
    /\ files' = Append(files, <<>>)
    /\ pathId' = Len(files) + 1
    /\ written' = written + 1
    /\ UNCHANGED <<startAtEnd, cancelled, pc, handles, f, fileOff, buf, startPos, ev,
                   eventsCh, received, readLog, result, truncated>>
    /\ UNCHANGED sentSinceCancel
    /\ UNCHANGED <<dirVars, parses, parseVars>>

Cancel ==
    /\ pc # "done"
    /\ ~cancelled
    /\ cancelled' = TRUE
    /\ UNCHANGED <<files, pathId, written, startAtEnd, pc, handles, f, fileOff, buf, startPos,
                   ev, eventsCh, received, readLog, result, truncated>>
    /\ UNCHANGED sentSinceCancel
    /\ UNCHANGED <<dirVars, parses, parseVars>>

\* <-eventsCh
Consume ==
    /\ eventsCh # <<>>
    /\ received' = Append(received, Head(eventsCh))
    /\ eventsCh' = Tail(eventsCh)
    /\ UNCHANGED <<files, pathId, written, startAtEnd, cancelled, pc, handles, f, fileOff, buf,
                   startPos, ev, readLog, result, truncated>>
    /\ UNCHANGED sentSinceCancel
    /\ UNCHANGED <<dirVars, parses, parseVars>>

(***************************************************************************)
(* PlayerDirectory: the cache of the players, the callers of its methods,  *)
(* the source and the clock.                                               *)
(***************************************************************************)

\* the goroutines calling the directory
Callers == {"c1", "c2"}

NoCaller == "none"

defaultPlayerCacheExpiry == 2

\* the zero time.Time, before every instant of the clock
ZeroTime == 0

ZeroPlayer == [ClientNum |-> 0, Name |-> <<>>, GUID |-> <<>>]

PlayerA == [ClientNum |-> 1, Name |-> <<"^", "1", "A", "l">>, GUID |-> <<"X", "1">>]

PlayerB == [ClientNum |-> 2, Name |-> <<"a", "l", "^">>, GUID |-> <<"y", " ">>]

PlayerC == [ClientNum |-> 3, Name |-> <<"^">>, GUID |-> <<" ">>]

\* what source.Status can return without error
SourceResults == {<<>>, <<PlayerA>>, <<PlayerC, PlayerB, PlayerA>>}

\* the ttl arguments of NewPlayerDirectory
TTLArgs == {0, 1}

NameQueries == {<<"a", "L">>, <<"^", "1", " ">>}

ClientNumQueries == {1}

GuidQueries == {<<" ", "x", "1">>, <<" ">>}

NoOp == [name |-> "none", arg |-> <<>>]

\* what a call returns: the error or the value; whether the value, a slice, has the
\* array of d.players as its backing array; and the method that returned before calling
\* Snapshot, if one did
Returned(e, v, sh, by) == [err |-> e, val |-> v, shares |-> sh, shortcut |-> by]

NoRet == Returned(FALSE, <<>>, FALSE, "none")

NotFound == <<>>

\* no slice, or one the directory has no array in common with
NoSlice == [val |-> <<>>, shares |-> FALSE]

\* the slice is used as it is, without a copy
SameSlice(src) == [val |-> src, shares |-> TRUE]

\* make([]Player, len(src)) and copy(..., src): a slice with the elements of src and an
\* array of its own
MakeAndCopy(src) == [val |-> src, shares |-> FALSE]

\* NewPlayerDirectory: a ttl <= 0 is replaced by the default
NewPlayerDirectory(t) == IF t <= 0 THEN defaultPlayerCacheExpiry ELSE t

DirInit ==
    /\ now = 1
    /\ ttl \in {NewPlayerDirectory(t) : t \in TTLArgs}
    /\ mu = [w |-> NoCaller, r |-> {}]
    /\ players = <<>>
    /\ expires = ZeroTime
    /\ cpc = [c \in Callers |-> "idle"]
    /\ op = [c \in Callers |-> NoOp]
    /\ got = [c \in Callers |-> <<>>]
    /\ ret = NoRet
    /\ handed = NoSlice
    /\ lastPair = [players |-> <<>>, expires |-> ZeroTime, by |-> "cleared"]
    /\ statusOrder = <<>>
    /\ behind = {}
    /\ fresh = FALSE

\* a stripColorCodes that removes the carets and keeps the character after each
stripCarets(input) == SelectSeq(input, LAMBDA ch : ch # "^")

\* stripColorCodes: a caret and the character after it are removed
RECURSIVE stripColorCodes(_)
stripColorCodes(input) ==
    IF input = <<>> THEN <<>>
    ELSE IF Head(input) = "^"
    THEN IF Len(input) >= 2 THEN stripColorCodes(SubSeq(input, 3, Len(input))) ELSE <<>>
    ELSE <<Head(input)>> \o stripColorCodes(Tail(input))

\* the first element of ps that satisfies Match, as a sequence of at most one player
FirstMatch(ps, Match(_)) ==
    IF \E i \in 1..Len(ps) : Match(ps[i])
    THEN <<ps[CHOOSE i \in 1..Len(ps) : Match(ps[i]) /\ \A j \in 1..(i - 1) : ~Match(ps[j])]>>
    ELSE <<>>

\* the loop of FindByName over the snapshot
MatchByName(ps, name) ==
    LET lower == ToLower(TrimSpace(stripColorCodes(name)))
        Match(p) == Contains(ToLower(stripColorCodes(p.Name)), lower)
    IN  FirstMatch(ps, Match)

\* the loop of FindByClientNum over the snapshot
MatchByClientNum(ps, clientNum) ==
    LET Match(p) == p.ClientNum = clientNum
    IN  FirstMatch(ps, Match)

\* the loop of FindByGUID over the snapshot
MatchByGUID(ps, guid) ==
    LET Match(p) == EqualFold(TrimSpace(p.GUID), TrimSpace(guid))
    IN  FirstMatch(ps, Match)

\* what the method o returns when its call of Snapshot returned ps
ResultOf(o, ps) ==
    IF o.name = "FindByName" THEN MatchByName(ps, o.arg)
    ELSE IF o.name = "FindByClientNum" THEN MatchByClientNum(ps, o.arg)
    ELSE IF o.name = "FindByGUID" THEN MatchByGUID(ps, o.arg)
    ELSE ps

\* the methods that call Snapshot, with the arguments that reach the call
SnapshotOps ==
    {[name |-> "Snapshot", arg |-> <<>>]}
        \cup {[name |-> "FindByName", arg |-> q] :
                q \in {n \in NameQueries : TrimSpace(stripColorCodes(n)) # <<>>}}
        \cup {[name |-> "FindByClientNum", arg |-> n] : n \in ClientNumQueries}
        \cup {[name |-> "FindByGUID", arg |-> g] :
                g \in {q \in GuidQueries : TrimSpace(q) # <<>>}}

\* d.mu.RLock() waits while a writer holds the lock
CanRLock == mu.w = NoCaller

\* a write lock that does not wait for the readers
CanLockDespiteReaders == mu.w = NoCaller

\* d.mu.Lock() waits while a writer or a reader holds the lock
CanLock == mu.w = NoCaller /\ mu.r = {}

\* lines 176-179 and 214-217: FindByName and FindByGUID return not found, without
\* calling Snapshot, when the query is empty once stripped and trimmed
FindEmpty(c) ==
    /\ cpc[c] = "idle"
    /\ \/ /\ \E q \in NameQueries : TrimSpace(stripColorCodes(q)) = <<>>
          /\ ret' = Returned(FALSE, NotFound, FALSE, "FindByName")
       \/ /\ \E g \in GuidQueries : TrimSpace(g) = <<>>
          /\ ret' = Returned(FALSE, NotFound, FALSE, "FindByGUID")
    /\ UNCHANGED <<now, ttl, mu, players, expires, cpc, op, got, handed, lastPair, fresh>>
    /\ UNCHANGED <<recordOrder, statusOrder, behind>>
    /\ UNCHANGED <<tailVars, parseVars>>

\* line 150: a method that calls Snapshot begins, and Snapshot takes the read lock
SnapRLock(c) ==
    /\ cpc[c] = "idle"
    /\ CanRLock
    /\ \E o \in SnapshotOps : op' = [op EXCEPT ![c] = o]
    /\ mu' = [mu EXCEPT !.r = @ \cup {c}]
    /\ cpc' = [cpc EXCEPT ![c] = "rlocked"]
    /\ fresh' = FALSE
    /\ UNCHANGED <<now, ttl, players, expires, got, ret, handed, lastPair>>
    /\ UNCHANGED <<recordOrder, statusOrder, behind>>
    /\ UNCHANGED <<tailVars, parseVars>>

\* line 151: the cache answers
CacheValid == Len(players) > 0 /\ now < expires

\* a Snapshot that keeps the read lock while it calls source.Status
SnapCheckKeepsRLock(c) ==
    /\ cpc[c] = "rlocked"
    /\ IF CacheValid
       THEN /\ mu' = [mu EXCEPT !.r = @ \ {c}]
            /\ ret' = Returned(FALSE, ResultOf(op[c], MakeAndCopy(players).val),
                               op[c].name = "Snapshot" /\ MakeAndCopy(players).shares,
                               "none")
            /\ cpc' = [cpc EXCEPT ![c] = "idle"]
            /\ op' = [op EXCEPT ![c] = NoOp]
       ELSE /\ cpc' = [cpc EXCEPT ![c] = "status"]
            /\ UNCHANGED <<mu, ret, op>>
    /\ UNCHANGED <<now, ttl, players, expires, got, handed, lastPair, fresh>>
    /\ UNCHANGED <<recordOrder, statusOrder, behind>>
    /\ UNCHANGED <<tailVars, parseVars>>

\* lines 151-157: under the read lock, answer from the cache or go on to the source
SnapCheck(c) ==
    /\ cpc[c] = "rlocked"
    /\ mu' = [mu EXCEPT !.r = @ \ {c}]
    /\ IF CacheValid
       THEN /\ ret' = Returned(FALSE, ResultOf(op[c], MakeAndCopy(players).val),
                               op[c].name = "Snapshot" /\ MakeAndCopy(players).shares,
                               "none")
            /\ cpc' = [cpc EXCEPT ![c] = "idle"]
            /\ op' = [op EXCEPT ![c] = NoOp]
       ELSE /\ cpc' = [cpc EXCEPT ![c] = "status"]
            /\ UNCHANGED <<ret, op>>
    /\ UNCHANGED <<now, ttl, players, expires, got, handed, lastPair, fresh>>
    /\ UNCHANGED <<recordOrder, statusOrder, behind>>
    /\ UNCHANGED <<tailVars, parseVars>>

\* a Snapshot that drops the cache when source.Status fails
StatusErrorClears(c) ==
    /\ cpc[c] = "status"
    /\ ret' = Returned(TRUE, <<>>, FALSE, "none")
    /\ cpc' = [cpc EXCEPT ![c] = "idle"]
    /\ op' = [op EXCEPT ![c] = NoOp]
    /\ players' = <<>>
    /\ expires' = ZeroTime
    /\ lastPair' = [players |-> <<>>, expires |-> ZeroTime, by |-> "cleared"]
    /\ UNCHANGED <<now, ttl, mu, got, handed, fresh>>
    /\ UNCHANGED <<recordOrder, statusOrder, behind>>
    /\ UNCHANGED <<tailVars, parseVars>>

\* lines 159-162: source.Status failed; Snapshot and its caller return the error
StatusError(c) ==
    /\ cpc[c] = "status"
    /\ ret' = Returned(TRUE, <<>>, FALSE, "none")
    /\ cpc' = [cpc EXCEPT ![c] = "idle"]
    /\ op' = [op EXCEPT ![c] = NoOp]
    /\ UNCHANGED <<now, ttl, mu, players, expires, got, handed, lastPair, fresh>>
    /\ UNCHANGED <<recordOrder, statusOrder, behind>>
    /\ UNCHANGED <<tailVars, parseVars>>

\* line 159: source.Status returned players
StatusOk(c) ==
    /\ cpc[c] = "status"
    /\ \E ps \in SourceResults : got' = [got EXCEPT ![c] = ps]
    /\ statusOrder' = IF recordOrder THEN Append(statusOrder, c) ELSE statusOrder
    /\ UNCHANGED <<recordOrder, behind>>
    /\ cpc' = [cpc EXCEPT ![c] = "lock"]
    /\ UNCHANGED <<now, ttl, mu, players, expires, op, ret, handed, lastPair, fresh>>
    /\ UNCHANGED <<tailVars, parseVars>>

\* lines 164-165: take the write lock; d.players = make([]Player, len(players))
SnapLockMake(c) ==
    /\ cpc[c] = "lock"
    /\ CanLock
    /\ mu' = [mu EXCEPT !.w = c]
    /\ players' = [i \in 1..Len(got[c]) |-> ZeroPlayer]
    /\ ret' = [ret EXCEPT !.shares = FALSE]
    /\ handed' = NoSlice
    /\ cpc' = [cpc EXCEPT ![c] = "copy"]
    /\ UNCHANGED <<now, ttl, expires, op, got, lastPair, fresh>>
    /\ UNCHANGED <<recordOrder, statusOrder, behind>>
    /\ UNCHANGED <<tailVars, parseVars>>

\* line 166: copy(d.players, players)
SnapCopy(c) ==
    /\ cpc[c] = "copy"
    /\ players' = MakeAndCopy(got[c]).val
    /\ handed' = [val |-> got[c], shares |-> MakeAndCopy(got[c]).shares]
    /\ cpc' = [cpc EXCEPT ![c] = "expires"]
    /\ UNCHANGED <<now, ttl, mu, expires, op, got, ret, lastPair, fresh>>
    /\ UNCHANGED <<recordOrder, statusOrder, behind>>
    /\ UNCHANGED <<tailVars, parseVars>>

\* the callers whose call of Status returned before that of c and who have not stored
\* their players yet
ReturnedBefore(c) ==
    {statusOrder[i] : i \in {k \in 1..Len(statusOrder) :
                                \E m \in (k + 1)..Len(statusOrder) : statusOrder[m] = c}}

\* lines 167-172: d.expires = now + ttl; unlock; return a copy of players
SnapStore(c) ==
    /\ cpc[c] = "expires"
    /\ expires' = now + ttl
    /\ lastPair' = [players |-> got[c], expires |-> now + ttl, by |-> "refresh"]
    /\ statusOrder' = SelectSeq(statusOrder, LAMBDA d : d # c)
    /\ behind' = (behind \cup ReturnedBefore(c)) \ {c}
    /\ UNCHANGED recordOrder
    /\ mu' = [mu EXCEPT !.w = NoCaller]
    /\ ret' = Returned(FALSE, ResultOf(op[c], MakeAndCopy(got[c]).val),
                        /\ op[c].name = "Snapshot"
                        /\ MakeAndCopy(got[c]).shares
                        /\ handed.shares,
                        "none")
    /\ cpc' = [cpc EXCEPT ![c] = "idle"]
    /\ op' = [op EXCEPT ![c] = NoOp]
    /\ got' = [got EXCEPT ![c] = <<>>]
    /\ UNCHANGED <<now, ttl, players, handed, fresh>>
    /\ UNCHANGED <<tailVars, parseVars>>

\* lines 234-235: Invalidate takes the write lock; d.players = nil
InvLock(c) ==
    /\ cpc[c] = "idle"
    /\ CanLock
    /\ mu' = [mu EXCEPT !.w = c]
    /\ players' = <<>>
    /\ ret' = [ret EXCEPT !.shares = FALSE]
    /\ handed' = NoSlice
    /\ op' = [op EXCEPT ![c] = [name |-> "Invalidate", arg |-> <<>>]]
    /\ cpc' = [cpc EXCEPT ![c] = "clear"]
    /\ UNCHANGED <<now, ttl, expires, got, lastPair, fresh>>
    /\ UNCHANGED <<recordOrder, statusOrder, behind>>
    /\ UNCHANGED <<tailVars, parseVars>>

\* lines 236-238: d.expires = time.Time{}; unlock; return
InvStore(c) ==
    /\ cpc[c] = "clear"
    /\ expires' = ZeroTime
    /\ lastPair' = [players |-> <<>>, expires |-> ZeroTime, by |-> "cleared"]
    /\ mu' = [mu EXCEPT !.w = NoCaller]
    /\ cpc' = [cpc EXCEPT ![c] = "idle"]
    /\ op' = [op EXCEPT ![c] = NoOp]
    /\ fresh' = TRUE
    /\ UNCHANGED <<now, ttl, players, got, ret, handed>>
    /\ UNCHANGED <<recordOrder, statusOrder, behind>>
    /\ UNCHANGED <<tailVars, parseVars>>

\* a write of s[0] through the slice s
WriteFirst(s) == [s EXCEPT ![1] = ZeroPlayer]

\* the caller changes the value returned to it; d.players changes with it if both have
\* one array
CallerWrites ==
    /\ ~ret.err
    /\ ret.val # <<>>
    /\ ret.val[1] # ZeroPlayer
    /\ ret' = [ret EXCEPT !.val = WriteFirst(@)]
    /\ players' = IF ret.shares THEN WriteFirst(players) ELSE players
    /\ UNCHANGED <<now, ttl, mu, expires, cpc, op, got, handed, lastPair, fresh>>
    /\ UNCHANGED <<recordOrder, statusOrder, behind>>
    /\ UNCHANGED <<tailVars, parseVars>>

\* the source changes the slice it returned from Status, after Snapshot has stored its
\* players; d.players changes with it if both have one array
SourceWrites ==
    /\ handed.val # <<>>
    /\ handed.val[1] # ZeroPlayer
    /\ \A c \in Callers : cpc[c] # "expires"
    /\ handed' = [handed EXCEPT !.val = WriteFirst(@)]
    /\ players' = IF handed.shares THEN WriteFirst(players) ELSE players
    /\ UNCHANGED <<now, ttl, mu, expires, cpc, op, got, ret, lastPair, fresh>>
    /\ UNCHANGED <<recordOrder, statusOrder, behind>>
    /\ UNCHANGED <<tailVars, parseVars>>

\* time passes
Tick ==
    /\ now < MaxTime
    /\ now' = now + 1
    /\ UNCHANGED <<ttl, mu, players, expires, cpc, op, got, ret, handed, lastPair, fresh>>
    /\ UNCHANGED <<recordOrder, statusOrder, behind>>
    /\ UNCHANGED <<tailVars, parseVars>>


(***************************************************************************)
(* ParseEventLine on its own: a line is put together from pieces, then     *)
(* classified, then classified again with a timestamp token before it.     *)
(***************************************************************************)
\* the most pieces a line is made of
MaxTokens == 3

Modes == {"line", "blob"}

StrKillRest ==
    <<"t", ";", "n", ";", "0", ";", "2", ";", "t", ";", "n", ";", "w", ";", "d", ";",
      "m", ";", "h">>

\* the pieces of a line: text, white space, semicolons, slot fields (one of them
\* negative), clock tokens (one of them negative), the prefixes of the grammar, the
\* beginning of a join line and the two ends of a kill line
LineTokens ==
    { <<"a">>, <<" ">>, <<"\t">>, <<";">>, <<";", "1", ";">>, <<";", "-", "1", ";">>,
      <<"1", ":", "0", "2">>, <<"-", "1", ":", "3", "0">>,
      StrSay \o <<"a">>, StrInitGame, StrShutdownGame,
      <<"J", ";", "0">>, <<"K", ";", "0">>, StrKillRest }

\* the pieces of the blob of an InitGame line: key/value pairs (two with one key), a
\* lone backslash, text, white space
BlobTokens ==
    { <<"\\", "k", "\\", "v">>, <<"\\", "k", "\\", "w">>, <<"\\", "j", "\\", "w">>,
      <<"\\">>, <<"x">>, <<" ">> }

\* the timestamp tokens put before a line
Stamps == { <<"1", ":", "0", "2", ":", "0", "3">>, <<"0", ":", "5">> }

RECURSIVE Concat(_)
Concat(ts) == IF ts = <<>> THEN <<>> ELSE Head(ts) \o Concat(Tail(ts))

\* the line the pieces make
LineOf(mode, toks) == IF mode = "blob" THEN StrInitGame \o Concat(toks) ELSE Concat(toks)

PLine == LineOf(pmode, ptoks)

\* ParseEventLine has not been called
NoResult == [err |-> FALSE, ev |-> NoEvent]

NoStamped == [stamp |-> <<>>, res |-> NoResult]

ParseIdle ==
    /\ pmode = "line"
    /\ ptoks = <<>>
    /\ pres = NoResult
    /\ pst = NoStamped

\* one more piece is added to the line
AppendToken ==
    /\ pres = NoResult
    /\ Len(ptoks) < MaxTokens
    /\ \E t \in (IF pmode = "blob" THEN BlobTokens ELSE LineTokens) : ptoks' = Append(ptoks, t)
    /\ UNCHANGED <<pmode, pres, pst>>
    /\ UNCHANGED <<tailVars, dirVars>>

\* ev, err := ParseEventLine(line)
Classify ==
    /\ pres = NoResult
    /\ pres' = ParseEventLine(PLine)
    /\ UNCHANGED <<pmode, ptoks, pst>>
    /\ UNCHANGED <<tailVars, dirVars>>

\* ev, err := ParseEventLine(stamp + " " + line)
ClassifyStamped ==
    /\ pres # NoResult
    /\ pst = NoStamped
    /\ \E t \in Stamps :
          pst' = [stamp |-> t, res |-> ParseEventLine(t \o <<" ">> \o PLine)]
    /\ UNCHANGED <<pmode, ptoks, pres>>
    /\ UNCHANGED <<tailVars, dirVars>>

(***************************************************************************)
(* The specifications: a run of the tailer, with and without fairness, and *)
(* the callers of a directory.                                             *)
(***************************************************************************)
\* a run of the tailer; the directory is constructed and not called
Init ==
    TailInit /\ DirInit /\ ttl = defaultPlayerCacheExpiry /\ recordOrder = FALSE /\ ParseIdle

\* the callers of a directory; the tailer is not started
DirSpecInit ==
    DirInit /\ recordOrder = FALSE /\ TailInit /\ startAtEnd = FALSE /\ ParseIdle

\* the same, with the order of the returns of source.Status recorded
DirOrderSpecInit ==
    DirInit /\ recordOrder = TRUE /\ TailInit /\ startAtEnd = FALSE /\ ParseIdle

\* a line to classify; the tailer is not started and the directory not called
ParseSpecInit ==
    /\ TailInit /\ startAtEnd = FALSE
    /\ DirInit /\ ttl = defaultPlayerCacheExpiry /\ recordOrder = FALSE
    /\ pmode \in Modes
    /\ ptoks = <<>>
    /\ pres = NoResult
    /\ pst = NoStamped

TailNext ==
    \/ Tailer
    \/ WriterAppend
    \/ WriterTruncate
    \/ WriterRemove
    \/ WriterCreate
    \/ Cancel
    \/ Consume

DirNext ==
    \/ \E c \in Callers : FindEmpty(c)
    \/ \E c \in Callers : SnapRLock(c)
    \/ \E c \in Callers : SnapCheck(c)
    \/ \E c \in Callers : StatusError(c)
    \/ \E c \in Callers : StatusOk(c)
    \/ \E c \in Callers : SnapLockMake(c)
    \/ \E c \in Callers : SnapCopy(c)
    \/ \E c \in Callers : SnapStore(c)
    \/ \E c \in Callers : InvLock(c)
    \/ \E c \in Callers : InvStore(c)
    \/ CallerWrites
    \/ SourceWrites
    \/ Tick

ParseNext ==
    \/ AppendToken
    \/ Classify
    \/ ClassifyStamped

\* a run of TailFileContext with its environment
Spec == Init /\ [][TailNext]_vars

\* the goroutine of the tailer is scheduled as long as it can take a step
TailFair == Spec /\ WF_vars(Tailer)

\* and so is the consumer of the channel
TailFairConsumed ==
    Spec /\ WF_vars(Tailer) /\ WF_vars(Consume)

\* the callers of a PlayerDirectory
DirSpec == DirSpecInit /\ [][DirNext]_vars

\* the callers of the directory, with the order of the returns of source.Status recorded
DirOrderSpec == DirOrderSpecInit /\ [][DirNext]_vars

\* ParseEventLine called on a line, and on the line with a timestamp before it
ParseSpec == ParseSpecInit /\ [][ParseNext]_vars

(***************************************************************************)
(* The tailer: properties.                                                 *)
(***************************************************************************)
\* the events sent so far, in the order they were sent
Delivered == received \o eventsCh

SeqsOf(s) == {s[i].seq : i \in 1..Len(s)}

\* the line read k-th was parsed without error
Parses(k) == ~ParseEventLine(readLog[k].line).err

\* the number of the line the event sent last was parsed from, 0 before any is sent
LastSent == IF Delivered = <<>> THEN 0 ELSE Delivered[Len(Delivered)].seq

\* C1: the events are sent in the order in which the lines they were parsed from were
\* read: of two events sent, the one sent first comes from the line read first.
C1_EventsInReadOrder ==
    \A i, j \in 1..Len(Delivered) : i < j => Delivered[i].seq < Delivered[j].seq

\* three events were sent, and the consumer has taken the first while two are buffered
C1_ThreeEventsSent == Len(received) >= 1 /\ Len(eventsCh) >= 2

\* C2 (as claimed): every line handed to ParseEventLine, read from a file that was
\* only appended to, is a complete line of that file: it begins where reading began or
\* right after a line terminator.
C2_OnlyCompleteLinesParsed ==
    \A k \in 1..Len(readLog) : readLog[k].intact => readLog[k].whole

\* the file at the path is not the file the tailer reads
ReplacedByNewFile == pc \notin {"open", "done"} /\ pathId # 0 /\ pathId # CurFile

\* the size of the file with identity i, 0 for no file
SizeOf(i) == IF i = 0 THEN 0 ELSE Len(files[i])

\* the file the tailer reads is shorter than the tailer's offset in it
TruncatedBelowOffset ==
    pc \notin {"open", "done"} /\ pathId # 0 /\ pathId = CurFile
        /\ SizeOf(CurFile) < fileOff

C4_CancelReturns ==
    /\ cancelled ~> pc = "done"
    /\ [][(cancelled /\ pc \notin {"open", "read", "done"} /\ pc' = "done")
              => (result' = "ctxErr")]_vars

\* the tailer was blocked sending on a full channel, ctx was cancelled, and it returned
\* ctx.Err() with the event unsent
C4_ReturnedFromBlockedSend ==
    /\ pc = "done"
    /\ result = "ctxErr"
    /\ ev # NoPending
    /\ Len(eventsCh) = ChanCap

\* C5: a line ParseEventLine rejects does not end the tailer, which returns on
\* cancellation or an I/O error only; no event is sent for such a line; and, while ctx is
\* not cancelled, a parseable line read after it has its event sent (or being sent).
C5_ParseErrorSkipped ==
    /\ pc = "done" => result \in {"ctxErr", "ioErr"}
    /\ \A i \in 1..Len(Delivered) : Parses(Delivered[i].seq)
    /\ ~cancelled =>
          \A k, j \in 1..Len(readLog) :
              (k < j /\ ~Parses(k) /\ Parses(j)) =>
                  (j \in SeqsOf(Delivered) \/ (pc = "send" /\ ev.seq = j))

\* a malformed line was read and skipped, and the consumer has received the event of a
\* line read after it
C5_EventAfterMalformedLine ==
    \E k, j \in 1..Len(readLog) :
        k < j /\ ~Parses(k) /\ j \in SeqsOf(received)

\* C6: the channel never holds more than its capacity; while an event is being sent no
\* further line is read; and, while ctx is not cancelled, the events sent are exactly
\* the parses of the lines read and parsed successfully, each once, but for the event
\* being sent.
C6_BackpressureWithoutLoss ==
    /\ Len(eventsCh) <= ChanCap
    /\ pc = "send" => ev.seq = Len(readLog)
    /\ ~cancelled =>
          /\ SeqsOf(Delivered) =
                {k \in 1..Len(readLog) : Parses(k)} \ (IF pc = "send" THEN {ev.seq} ELSE {})
          /\ \A i, j \in 1..Len(Delivered) : i # j => Delivered[i].seq # Delivered[j].seq
          /\ \A i \in 1..Len(Delivered) :
                Delivered[i].ev = ParseEventLine(readLog[Delivered[i].seq].line).ev

\* the channel is full and the tailer waits in the send with one more event
C6_BlockedOnFullChannel ==
    pc = "send" /\ Len(eventsCh) = ChanCap /\ ~cancelled

(***************************************************************************)
(* The directory: properties.                                              *)
(***************************************************************************)
\* C7 (as claimed): a Snapshot that finds the cache filled by a fetch whose TTL has not
\* elapsed, whatever the fetch returned, an empty sequence included, answers from the
\* cache and does not go on to source.Status.
C7_FreshFetchAnswersFromCache ==
    [][\A c \in Callers :
          (cpc[c] = "rlocked" /\ lastPair.by = "refresh" /\ now < lastPair.expires)
              => cpc'[c] # "status"]_vars

\* C8: the steps of a Snapshot whose source.Status fails (read lock, cache miss, error)
\* leave d.players and d.expires as they are, and the call returns the error.
C8_StatusErrorKeepsCache ==
    [][\A c \in Callers :
          (cpc[c] \in {"idle", "rlocked", "status"} /\ cpc'[c] # cpc[c]
             /\ cpc'[c] \in {"idle", "rlocked", "status"})
              => /\ players' = players
                 /\ expires' = expires
                 /\ cpc[c] = "status" => ret'.err]_vars

\* source.Status failed with players of an earlier fetch, expired, in the cache, and they
\* are still there
C8_ErrorWithStaleCache ==
    /\ ret.err
    /\ Len(players) > 0
    /\ lastPair.by = "refresh"
    /\ now >= expires
    /\ \A c \in Callers : cpc[c] = "idle"

\* C9 (as claimed): the first Snapshot to begin after an Invalidate has returned finds
\* no valid cache, and so invokes source.Status, whatever the other callers are doing.
C9_SnapshotAfterInvalidateRefreshes ==
    [][\A c \in Callers :
          (fresh /\ cpc[c] = "idle" /\ cpc'[c] = "rlocked") => ~CacheValid]_vars

\* C10: whenever a caller holds the read lock, and whenever nobody holds the write lock,
\* d.players and d.expires are those of one and the same refresh (or both cleared).
C10_PairNeverTorn ==
    (mu.r # {} \/ mu.w = NoCaller) =>
        (players = lastPair.players /\ expires = lastPair.expires)

\* a caller reads the pair of a refresh under the read lock while another caller, with
\* other players fetched, waits for the write lock
C10_ReaderWhileRefreshWaits ==
    \E c, d \in Callers :
        /\ c \in mu.r
        /\ cpc[d] = "lock"
        /\ lastPair.by = "refresh"
        /\ got[d] # players

\* C11: d.players changes only in the steps of Snapshot and Invalidate under the write
\* lock, never when a caller writes into a sequence returned to it or the source into the
\* slice it returned; and a cache hit returns what the last refresh stored.
C11_ReturnedCopyIndependent ==
    [][/\ players' # players =>
             \E c \in Callers : cpc'[c] # cpc[c] /\ cpc'[c] \in {"copy", "expires", "clear"}
       /\ \A c \in Callers :
             (cpc[c] = "rlocked" /\ cpc'[c] = "idle")
                 => ret'.val = ResultOf(op[c], lastPair.players)]_vars

\* a caller has written into the sequence returned to it, the source into the slice it
\* returned, and the cache still holds the players of the refresh
C11_WrittenOutsideCacheIntact ==
    /\ ret.val # <<>>
    /\ ret.val[1] = ZeroPlayer
    /\ handed.val # <<>>
    /\ handed.val[1] = ZeroPlayer
    /\ players = lastPair.players
    /\ players # <<>>
    /\ players[1] # ZeroPlayer

(***************************************************************************)
(* The line grammar: properties.                                           *)
(***************************************************************************)
\* the line classified, trimmed
PRaw == TrimSpace(PLine)

\* the line left after the optional timestamp, and that timestamp
PRest == StripTimestamp(PRaw).line

PStamp == StripTimestamp(PRaw).ts

Classified == pres # NoResult

\* C12: a line is classified by the first rule that applies to what is left after the
\* timestamp: the prefix InitGame:, the prefix ShutdownGame:, a semicolon (then the join
\* grammar, else the kill grammar, else the generic player grammar, whose failure is the
\* failure of the line), the prefix "say " or "sayteam " (chat grammar), else BaseEvent.
C12_FirstRuleWins ==
    (Classified /\ PRaw # <<>>) =>
        IF HasPrefix(PRest, StrInitGame)
        THEN ~pres.err /\ pres.ev.kind = "Server" /\ pres.ev.Command = SubSeq(StrInitGame, 1, 8)
        ELSE IF HasPrefix(PRest, StrShutdownGame)
        THEN /\ ~pres.err /\ pres.ev.kind = "Server" /\ pres.ev.Data = <<>>
             /\ pres.ev.Command = SubSeq(StrShutdownGame, 1, 12)
        ELSE IF ContainsChar(PRest, ";")
        THEN IF ~parseJoinEvent(PRest, PStamp, PRaw).err
             THEN pres = parseJoinEvent(PRest, PStamp, PRaw)
             ELSE IF ~parseKillEvent(PRest, PStamp, PRaw).err
             THEN pres = parseKillEvent(PRest, PStamp, PRaw)
             ELSE pres = parsePlayerEvent(PRest, PStamp, PRaw)
        ELSE IF HasPrefix(PRest, StrSay) \/ HasPrefix(PRest, StrSayTeam)
        THEN pres = parseChatPlayerEvent(PRest, PStamp, PRaw)
        ELSE ~pres.err /\ pres.ev.kind = "Base"

\* a line with the prefix "say " and a semicolon was classified: the semicolon grammars
\* decided, and none matched
C12_SayLineWithSemicolon ==
    /\ Classified
    /\ HasPrefix(PRest, StrSay)
    /\ Len(Fields(PRest)) >= 3
    /\ ContainsChar(PRest, ";")
    /\ pres.err

\* C13 (as claimed): every event ParseEventLine returns without error has a command
\* that is not empty.
C13_CommandNeverEmpty ==
    (Classified /\ ~pres.err) => pres.ev.Command # <<>>

\* C14 (as claimed): every PlayerEvent returned has a slot (Flag) >= 0, and every
\* KillEvent returned has killer and victim slots >= 0.
C14_SlotsNeverNegative ==
    (Classified /\ ~pres.err) =>
        /\ pres.ev.kind = "Player" => pres.ev.Flag >= 0
        /\ pres.ev.kind = "Kill" =>
              (pres.ev.KillerClientNum >= 0 /\ pres.ev.VictimClientNum >= 0)

\* one or more decimal digits
IsUnsigned(s) == s # <<>> /\ \A i \in 1..Len(s) : IsDigit(s[i])

\* a token of the form M:S or H:M:S, every component a non-negative integer
IsClock(tok) ==
    /\ Len(Split(tok, ":")) \in {2, 3}
    /\ \A i \in 1..Len(Split(tok, ":")) : IsUnsigned(Split(tok, ":")[i])

\* M*60+S or H*3600+M*60+S
ClockSeconds(tok) ==
    LET c == Split(tok, ":")
    IN  IF Len(c) = 2
        THEN DigitsValue(c[1], 0) * 60 + DigitsValue(c[2], 0)
        ELSE DigitsValue(c[1], 0) * 3600 + DigitsValue(c[2], 0) * 60 + DigitsValue(c[3], 0)

\* the first token of the trimmed line
PFirst == IF PRaw = <<>> THEN <<>> ELSE Fields(PRaw)[1]

\* C15 (as claimed): the event returned has a timestamp exactly when the first token of
\* the trimmed line is M:S or H:M:S with non-negative integer components; the timestamp
\* is then M*60+S or H*3600+M*60+S seconds, never negative, and the token is not part of
\* what is classified; otherwise there is no timestamp and the line is left as it is.
C15_TimestampExactlyForClockToken ==
    (Classified /\ ~pres.err) =>
        IF IsClock(PFirst)
        THEN /\ pres.ev.Timestamp = <<ClockSeconds(PFirst)>>
             /\ ClockSeconds(PFirst) >= 0
             /\ pres.ev.kind = "Base" => pres.ev.Command = JoinSpace(Tail(Fields(PRaw)))
        ELSE /\ pres.ev.Timestamp = NoTimestamp
             /\ pres.ev.kind = "Base" => pres.ev.Command = PRaw

\* the two events are of one variant and differ in timestamp and raw line at most
SameButStamp(a, b) ==
    /\ a.kind = b.kind
    /\ [a EXCEPT !.Timestamp = NoTimestamp, !.Raw = <<>>]
           = [b EXCEPT !.Timestamp = NoTimestamp, !.Raw = <<>>]

\* C16 (as claimed): when a line whose first token has no colon is classified without
\* error, the line with a valid timestamp token and a space before it is classified
\* without error too, with that token's seconds as timestamp and an event of the same
\* variant, command and fields.
C16_StampedLineSameEvent ==
    (pst # NoStamped /\ ~pres.err /\ ~ContainsChar(PFirst, ":")) =>
        /\ ~pst.res.err
        /\ pst.res.ev.Timestamp = <<ClockSeconds(pst.stamp)>>
        /\ SameButStamp(pst.res.ev, pres.ev)

\* an optional sign and one or more decimal digits
IsInteger(s) ==
    IF s # <<>> /\ Head(s) \in {"+", "-"} THEN IsUnsigned(Tail(s)) ELSE IsUnsigned(s)

\* the generic player grammar does not match: fewer than 4 semicolon-delimited fields,
\* or a third field that is no integer
GenericFails(line) ==
    \/ Len(Split(line, ";")) < 4
    \/ ~IsInteger(TrimSpace(Split(line, ";")[3]))

HasServerPrefix(line) == HasPrefix(line, StrInitGame) \/ HasPrefix(line, StrShutdownGame)

HasChatPrefix(line) == HasPrefix(line, StrSay) \/ HasPrefix(line, StrSayTeam)

\* the lines ParseEventLine is to reject
MustFail ==
    \/ PRaw = <<>>
    \/ /\ ContainsChar(PRest, ";")
       /\ ~HasServerPrefix(PRest)
       /\ parseJoinEvent(PRest, PStamp, PRaw).err
       /\ parseKillEvent(PRest, PStamp, PRaw).err
       /\ GenericFails(PRest)
    \/ /\ ~ContainsChar(PRest, ";")
       /\ ~HasServerPrefix(PRest)
       /\ HasChatPrefix(PRest)
       /\ Len(Fields(PRest)) < 3

WithoutMarkers(s) ==
    LET second[i \in 1..Len(s)] == i > 1 /\ s[i - 1] = "^" /\ ~second[i - 1]
        kept[i \in 0..Len(s)] ==
            IF i = 0 THEN <<>>
            ELSE IF second[i] \/ s[i] = "^" THEN kept[i - 1]
            ELSE Append(kept[i - 1], s[i])
    IN  kept[Len(s)]

\* hay contains needle when the case of letters is ignored
ContainsIgnoringCase(hay, needle) ==
    \E k \in 0..(Len(hay) - Len(needle)) :
        \A j \in 1..Len(needle) : LowerChar(hay[k + j]) = LowerChar(needle[j])

\* what FindByName is to return for the query q over the snapshot ps
NameRule(ps, q) ==
    LET n == TrimSpace(WithoutMarkers(q))
        hits == {i \in 1..Len(ps) : ContainsIgnoringCase(WithoutMarkers(ps[i].Name), n)}
    IN  IF n = <<>> \/ hits = {} THEN NotFound
        ELSE <<ps[CHOOSE i \in hits : \A j \in hits : i <= j]>>

\* C18: FindByName returns the first player of the snapshot whose name without color
\* markers contains, ignoring case, the query without markers and trimmed; not found and
\* no error when there is none; and not found, without asking the source, when the query
\* is empty once stripped and trimmed.
C18_FindByNameRule ==
    [][/\ \A c \in Callers :
            (op[c].name = "FindByName" /\ cpc[c] # "idle" /\ cpc'[c] = "idle" /\ ~ret'.err)
                => /\ TrimSpace(WithoutMarkers(op[c].arg)) # <<>>
                   /\ ret'.val = NameRule(IF cpc[c] = "rlocked" THEN players ELSE got[c],
                                          op[c].arg)
       /\ (ret' # ret /\ ret'.shortcut = "FindByName")
            => /\ \E q \in NameQueries : TrimSpace(WithoutMarkers(q)) = <<>>
               /\ ret'.val = NotFound
               /\ ~ret'.err
               /\ players' = players
               /\ cpc' = cpc
       /\ \A q \in NameQueries :
            (TrimSpace(WithoutMarkers(q)) # <<>>)
                => [name |-> "FindByName", arg |-> q] \in SnapshotOps]_vars

\* a call returned the second of three players, the first whose name matches; no other
\* method returns that player
C18_FirstOfTwoMatches ==
    /\ ret.val = <<PlayerB>>
    /\ lastPair.players = <<PlayerC, PlayerB, PlayerA>>
    /\ \E q \in NameQueries :
            /\ NameRule(lastPair.players, q) = <<PlayerB>>
            /\ NameRule(<<PlayerA>>, q) = <<PlayerA>>
    /\ \A o \in SnapshotOps :
            o.name # "FindByName" => ResultOf(o, lastPair.players) # <<PlayerB>>

\* a and b are equal when the case of letters is ignored
EqualIgnoringCase(a, b) ==
    Len(a) = Len(b) /\ \A i \in 1..Len(a) : LowerChar(a[i]) = LowerChar(b[i])

\* what FindByGUID is to return for the query g over the snapshot ps
GuidRule(ps, g) ==
    LET hits == {i \in 1..Len(ps) : EqualIgnoringCase(TrimSpace(ps[i].GUID), TrimSpace(g))}
    IN  IF hits = {} THEN NotFound ELSE <<ps[CHOOSE i \in hits : \A j \in hits : i <= j]>>

\* C19: for every query, one that trims to the empty string included, FindByGUID returns
\* the first player of the snapshot whose trimmed guid equals the trimmed query ignoring
\* case, and not found when there is none. A call that returns before Snapshot is held
\* to the rule over the cache, when the cache is one Snapshot would answer from.
C19_FindByGUIDRule ==
    [][/\ \A c \in Callers :
            (op[c].name = "FindByGUID" /\ cpc[c] # "idle" /\ cpc'[c] = "idle" /\ ~ret'.err)
                => ret'.val = GuidRule(IF cpc[c] = "rlocked" THEN players ELSE got[c],
                                       op[c].arg)
       /\ (ret' # ret /\ ret'.shortcut = "FindByGUID" /\ CacheValid)
            => \E g \in GuidQueries :
                    TrimSpace(g) = <<>> /\ ret'.val = GuidRule(players, g)]_vars

\* the text after the InitGame: prefix of the line
PBlob == Concat(ptoks)

\* the \key\value pairs of a blob, in order: the tokens between backslashes after the
\* first backslash, two at a time, without an unpaired last token
PairList(blob) ==
    LET tokens == Split(blob, "\\")
    IN  [n \in 1..((Len(tokens) - 1) \div 2) |-> [k |-> tokens[2 * n], v |-> tokens[2 * n + 1]]]

\* the mapping of a list of pairs; of two pairs with one key the later gives the value
MappingOf(pairs) ==
    [key \in {pairs[n].k : n \in 1..Len(pairs)} |->
        pairs[CHOOSE n \in 1..Len(pairs) :
                /\ pairs[n].k = key
                /\ \A m \in (n + 1)..Len(pairs) : pairs[m].k # key].v]

\* a list of pairs written as \key\value ... \key\value
RECURSIVE Serialize(_)
Serialize(pairs) ==
    IF pairs = <<>> THEN <<>>
    ELSE <<"\\">> \o Head(pairs).k \o <<"\\">> \o Head(pairs).v \o Serialize(Tail(pairs))

\* the pairs in every order
Orderings(pairs) ==
    {[n \in 1..Len(pairs) |-> pairs[perm[n]]] :
        perm \in {g \in [1..Len(pairs) -> 1..Len(pairs)] :
                 \A a, b \in 1..Len(pairs) : a # b => g[a] # g[b]}}

\* the data of the event of the InitGame line with this blob
DataOfBlob(blob) == ParseEventLine(StrInitGame \o blob).ev.Data

\* the pairs of a mapping, in some order
PairsOfMapping(d) ==
    CHOOSE pairs \in [1..Cardinality(DOMAIN d) -> [k : DOMAIN d, v : {d[key] : key \in DOMAIN d}]] :
        /\ \A key \in DOMAIN d : \E n \in DOMAIN pairs : pairs[n] = [k |-> key, v |-> d[key]]

\* C20: the data of an InitGame: line is the mapping of the \key\value pairs of its
\* (trimmed) remainder; the data written again as \key\value pairs, in any order, parses
\* to the same mapping; and so does the line's own list of pairs in any other order, when
\* no key occurs twice in it.
C20_BlobRoundTrip ==
    (Classified /\ pmode = "blob") =>
        /\ ~pres.err /\ pres.ev.kind = "Server"
        /\ pres.ev.Data = MappingOf(PairList(TrimSpace(PBlob)))
        /\ \A again \in Orderings(PairsOfMapping(pres.ev.Data)) :
                DataOfBlob(Serialize(again)) = pres.ev.Data
        /\ LET pairs == PairList(TrimSpace(PBlob))
           IN  (\A a, b \in 1..Len(pairs) : a # b => pairs[a].k # pairs[b].k)
                  => \A other \in Orderings(pairs) :
                        DataOfBlob(Serialize(other)) = pres.ev.Data

\* caller c holds the mutex, for reading or for writing
HoldsLock(c) == c \in mu.r \/ mu.w = c

\* C21: Snapshot has no single-flight. A caller that finds no valid cache under the read
\* lock goes on to source.Status whatever the other callers are doing; it holds the lock
\* while it reads the cache and while it writes it, and never while it calls
\* source.Status or waits for the write lock.
C21_NoSingleFlight ==
    /\ [](\A c \in Callers :
            /\ cpc[c] = "rlocked" => (c \in mu.r /\ mu.w = NoCaller)
            /\ cpc[c] \in {"copy", "expires"} => (mu.w = c /\ mu.r = {})
            /\ cpc[c] \in {"status", "lock"} => ~HoldsLock(c))
    /\ [][\A c \in Callers :
            (cpc[c] = "rlocked" /\ cpc'[c] # "rlocked")
                => IF CacheValid THEN cpc'[c] = "idle" ELSE cpc'[c] = "status"]_vars

\* both callers found the cache empty or expired, each called source.Status and has its
\* players, and neither has written the cache yet
C21_TwoCallersAskedSource ==
    /\ \A c \in Callers : cpc[c] = "lock" /\ got[c] # <<>> /\ op[c].name = "Snapshot"
    /\ ~CacheValid
    /\ mu = [w |-> NoCaller, r |-> {}]

\* the complete (terminated) lines of a file's content, in order
CompleteLines(content) ==
    LET parts == Split(content, "\n")
    IN  [n \in 1..(Len(parts) - 1) |-> TrimRight(parts[n])]

\* the first line of the content that is complete, not empty and parsed without error;
\* the empty sequence when there is none (no such line is empty)
FirstParseableLine(content) ==
    LET lines == CompleteLines(content)
        good == {n \in 1..Len(lines) : lines[n] # <<>> /\ ~parses[lines[n]].err}
    IN  IF good = {} THEN <<>> ELSE lines[CHOOSE n \in good : \A m \in good : n <= m]

\* no line read from file i so far was parsed without error
NoEventYetFrom(i) ==
    \A k \in 1..Len(readLog) : readLog[k].file = i => parses[readLog[k].line].err

\* C22: a reopen after a rotation starts reading at the first byte of the file, with an
\* empty buffer, whatever startAtEnd is, and neither the rotation test nor the reopen
\* sends an event; every event sent is the parse of a line read from a file opened at
\* the path; and the first event of a line of a reopened file (one only appended to)
\* is the parse of the first complete, non-empty, parseable line of that file.
C22_RotationReadsFromStart ==
    /\ [](\A i \in 1..Len(Delivered) :
            /\ Delivered[i].seq \in 1..Len(readLog)
            /\ Delivered[i].ev = parses[readLog[Delivered[i].seq].line].ev
            /\ ~parses[readLog[Delivered[i].seq].line].err
            /\ \E k \in 1..Len(handles) : handles[k].file = readLog[Delivered[i].seq].file)
    /\ [][/\ (pc = "reopen" /\ pc' = "loop")
                => (fileOff' = 0 /\ buf' = <<>> /\ f' > 1 /\ handles'[f'].file = pathId)
          /\ (pc \in {"stat", "reopen", "reopenSleep"})
                => (Delivered' = Delivered /\ ev' = ev /\ ev = NoPending)
          /\ (pc = "read" /\ pc' = "send" /\ f > 1 /\ CurFile \notin truncated
                /\ NoEventYetFrom(CurFile))
                => readLog'[Len(readLog')].line = FirstParseableLine(files[CurFile])]_vars

\* the handles TailFileContext opened that are open
OpenHandles == {k \in 1..Len(handles) : handles[k].open}

\* C23: at every point of a run at most one file handle opened by TailFileContext is
\* open, and once it has returned every handle it opened is closed, the one of the most
\* recent reopen included.
C23_HandlesClosedOnReturn ==
    /\ Cardinality(OpenHandles) <= 1
    /\ pc = "done" => OpenHandles = {}

\* C24: after ctx is cancelled TailFileContext sends at most one more event before it
\* returns: once it has sent one, the next thing it does is see the cancellation at the
\* top of the loop and return, without reading a line.
C24_OneSendAfterCancel ==
    /\ sentSinceCancel <= 1
    /\ (sentSinceCancel = 1 /\ pc # "done") => (pc = "loop" /\ ev = NoPending)

\* ctx was cancelled while an event was waiting to be sent, the event was sent all the
\* same, and TailFileContext has returned ctx.Err()
C24_SentOnceThenReturned ==
    /\ cancelled
    /\ sentSinceCancel = 1
    /\ pc = "done"
    /\ result = "ctxErr"

\* C25: the cache never goes backwards under concurrent refreshes: a caller whose call
\* of source.Status returned before that of another caller does not overwrite the cache
\* and its expiry once the other has written its players. Stated for a cache that the
\* other caller left non-empty and that the overwrite changes to other players.
C25_CacheNeverGoesBack ==
    [][\A c \in Callers :
            (/\ cpc[c] = "expires" /\ cpc'[c] = "idle"
             /\ lastPair.by = "refresh" /\ lastPair.players # <<>>
             /\ lastPair'.players # <<>>
             /\ lastPair'.players # lastPair.players)
                => c \notin behind]_vars

====
